---- MODULE Spec2Model ----
(***************************************************************************)
(* The product API of the Smart Inventory backend: the five CRUD handlers  *)
(* and the generate-description handler over the "products" table, with    *)
(* the Replicate client they call.  Every handler that awaits one query is *)
(* one action; generate-description awaits three times (read, remote call, *)
(* write) and is three actions, so other requests interleave between them. *)
(***************************************************************************)
EXTENDS Integers, Sequences, FiniteSets, Bags

\* ------------------------------------------------------------------ bounds
\* How many times the id sequence may be advanced (rows ever inserted).
MaxProducts == 2
\* How many generate-description requests may be in flight at once.
MaxGen == 2
\* How many rows may be inserted where only the CRUD handlers run.
MaxListed == 3
\* How many rows may be inserted where generate-description requests race.
MaxRaced == 1
\* How many requests of the product detail page may be in flight at once.
MaxFetches == 3

\* ------------------------------------------------------------------ values
\* A JavaScript value that is a string, or is undefined/null.
Str(s) == [isNull |-> FALSE, text |-> s]
Null == [isNull |-> TRUE, text |-> <<>>]

\* JavaScript truthiness of a string-or-undefined value: !v is true for
\* undefined, null and the empty string.
Truthy(v) == ~v.isNull /\ v.text # <<>>

\* The :id path segment is text: decimal digits of a value of the column
\* type integer ("2"), or any other text ("abc").
Digits(n) == [form |-> "integer", n |-> n]
Junk == [form |-> "text", n |-> 0]
NoParam == [form |-> "", n |-> 0]

\* The database's cast of a text parameter compared with the integer column
\* id: a value of the column type, or an error of the statement.
CastInt4(p) ==
  CASE p.form = "integer" -> [ok |-> TRUE, n |-> p.n, message |-> ""]
    [] OTHER ->
         [ok |-> FALSE, n |-> 0, message |-> "invalid input syntax for type integer"]

\* ------------------------------------------------------------------ inputs
NameInputs == {Null, Str(<<>>), Str(<<"T">>)}
AttributesInputs == {Null, Str(<<>>), Str(<<"k">>)}
DescriptionInputs == {Null, Str(<<"p">>)}
PathIds == {Digits(n) : n \in 1..MaxProducts} \cup {Junk}

\* What the pool can fail with on any statement.
StoreFailure == "connection terminated unexpectedly"

\* What replicate.run can resolve or reject with.
RemoteOutcomes ==
  { [kind |-> "output", fragments |-> << <<" ", "a", " ">>, <<"b", " ">> >>, message |-> ""],
    [kind |-> "output", fragments |-> << <<" ">> >>, message |-> ""],
    [kind |-> "output", fragments |-> << >>, message |-> ""],
    [kind |-> "output", fragments |-> << <<>> >>, message |-> ""],
    [kind |-> "undefined", fragments |-> << >>, message |-> ""],
    [kind |-> "reject", fragments |-> << >>, message |-> "Request failed: 402 Payment Required"],
    [kind |-> "reject", fragments |-> << >>, message |-> ""] }
\* Two calls given the same prompt may return different text (temperature
\* 0.8): the outcomes of requests that race for one product.
RacingOutcomes ==
  { [kind |-> "output", fragments |-> << <<" ", "a", " ">>, <<"b", " ">> >>, message |-> ""],
    [kind |-> "output", fragments |-> << <<"b">> >>, message |-> ""],
    [kind |-> "reject", fragments |-> << >>, message |-> "Request failed: 402 Payment Required"] }
NoOutcome == [kind |-> "none", fragments |-> << >>, message |-> ""]

\* ------------------------------------------------------ generation client
\* Array.prototype.join(""): the fragments in order, nothing between them.
RECURSIVE Join(_)
Join(fragments) ==
  IF fragments = << >> THEN << >> ELSE Head(fragments) \o Join(Tail(fragments))

IsSpace(c) == c = " "

RECURSIVE TrimStart(_)
TrimStart(s) ==
  IF s # << >> /\ IsSpace(Head(s)) THEN TrimStart(Tail(s)) ELSE s

RECURSIVE TrimEnd(_)
TrimEnd(s) ==
  IF s # << >> /\ IsSpace(s[Len(s)]) THEN TrimEnd(SubSeq(s, 1, Len(s) - 1)) ELSE s

\* Mutant: only the leading white space is removed.
Trim_StartOnly(s) == TrimStart(s)

\* String.prototype.trim.
Trim(s) == TrimEnd(TrimStart(s))

\* The template literal: both strings embedded as they are.
Prompt(productName, attributes) ==
  [template |-> "persuasive product description",
   productName |-> productName, attributes |-> attributes]
NoPrompt == [template |-> "", productName |-> Null, attributes |-> Null]

\* err.message || fallback, as both catch blocks of the generation path do.
MessageOr(message, fallback) == IF message = "" THEN fallback ELSE message

\* Mutant: an empty text is returned like any other.
GenerateDescription_NoEmptyCheck(outcome) ==
  IF outcome.kind = "output"
    THEN [ok |-> TRUE, text |-> Trim(Join(outcome.fragments)), message |-> ""]
    ELSE [ok |-> FALSE, text |-> << >>,
          message |-> MessageOr(outcome.message,
                                "Failed to generate description from AI Replicate.")]

\* generateDescription once replicate.run has settled with `outcome`: the
\* trimmed text, or the Error thrown out of its catch block.
GenerateDescription(outcome) ==
  LET Rethrow(m) ==
        [ok |-> FALSE, text |-> << >>,
         message |-> MessageOr(m, "Failed to generate description from AI Replicate.")]
  IN CASE outcome.kind = "reject" -> Rethrow(outcome.message)
       [] outcome.kind = "undefined" ->
            Rethrow("Cannot read properties of undefined (reading 'join')")
       [] OTHER ->
            LET description == Join(outcome.fragments)
            IN IF description = << >>
                 THEN Rethrow("Replicate API did not return any text.")
                 ELSE [ok |-> TRUE, text |-> Trim(description), message |-> ""]

\* ------------------------------------------------------ persistence gateway
\* A row of the table products.
Row(id, name, attributes, description, created_at) ==
  [id |-> id, name |-> name, attributes |-> attributes,
   description |-> description, created_at |-> created_at]

QueryError(message) == [ok |-> FALSE, rows |-> << >>, message |-> message]
QueryRows(rows) == [ok |-> TRUE, rows |-> rows, message |-> ""]

\* The rows of a set in ORDER BY id DESC.
RECURSIVE OrderByIdDesc(_)
OrderByIdDesc(rows) ==
  IF rows = {} THEN << >>
  ELSE LET top == CHOOSE r \in rows : \A q \in rows : q.id <= r.id
       IN <<top>> \o OrderByIdDesc(rows \ {top})

\* WHERE id = $1 with the path segment as the parameter.
WhereId(table, p) == {r \in table : r.id = CastInt4(p).n}

\* db.query of a statement with WHERE id = $1: it throws when the pool
\* fails or the parameter is no integer.
IdQueryThrows(p, poolFails) == poolFails \/ ~CastInt4(p).ok
IdQueryMessage(p, poolFails) ==
  IF poolFails THEN StoreFailure ELSE CastInt4(p).message

\* SELECT * FROM products WHERE id = $1
SelectById(table, p, poolFails) ==
  IF IdQueryThrows(p, poolFails) THEN QueryError(IdQueryMessage(p, poolFails))
  ELSE QueryRows(OrderByIdDesc(WhereId(table, p)))

\* Mutant: the rows come in ORDER BY id ASC.
SelectAll_Ascending(table, poolFails) ==
  LET desc == OrderByIdDesc(table)
  IN IF poolFails THEN QueryError(StoreFailure)
     ELSE QueryRows([i \in 1..Len(desc) |-> desc[Len(desc) + 1 - i]])

\* SELECT * FROM products ORDER BY id DESC
SelectAll(table, poolFails) ==
  IF poolFails THEN QueryError(StoreFailure) ELSE QueryRows(OrderByIdDesc(table))

\* Mutant: the statement writes only where no description is stored yet.
UpdatedTable_OnlyIfNull(table, p, description) ==
  {IF r.id = CastInt4(p).n /\ r.description.isNull
     THEN [r EXCEPT !.description = description] ELSE r : r \in table}

\* Mutant: the statement sets the column name.
UpdatedTable_WrongColumn(table, p, description) ==
  {IF r.id = CastInt4(p).n THEN [r EXCEPT !.name = description] ELSE r : r \in table}

\* Mutant: the statement has no WHERE clause.
UpdatedTable_NoWhere(table, p, description) ==
  {[r EXCEPT !.description = description] : r \in table}

\* UPDATE products SET description = $1 WHERE id = $2: the table afterwards.
UpdatedTable(table, p, description) ==
  {IF r \in WhereId(table, p) THEN [r EXCEPT !.description = description] ELSE r
     : r \in table}

\* ... RETURNING *: the rows as updated.
UpdateReturning(table, p, description, poolFails) ==
  IF IdQueryThrows(p, poolFails) THEN QueryError(IdQueryMessage(p, poolFails))
  ELSE QueryRows(OrderByIdDesc(
         {[r EXCEPT !.description = description] : r \in WhereId(table, p)}))

\* Mutant: the rows are returned and stay.
DeletedTable_Keep(table, p) == table

\* DELETE FROM products WHERE id = $1: the table afterwards.
DeletedTable(table, p) == table \ WhereId(table, p)

\* ... RETURNING *: the rows deleted.
DeleteReturning(table, p, poolFails) ==
  IF IdQueryThrows(p, poolFails) THEN QueryError(IdQueryMessage(p, poolFails))
  ELSE QueryRows(OrderByIdDesc(WhereId(table, p)))

\* id SERIAL: nextval of the sequence behind the column.
Nextval(seq) == seq + 1

\* Mutant: the id is one more than the largest id in the table.
InsertedRow_MaxPlusOne(table, seq, name, attributes, now) ==
  [id |-> IF table = {} THEN 1
          ELSE (CHOOSE r \in table : \A q \in table : q.id <= r.id).id + 1,
   name |-> name, attributes |-> attributes, description |-> Null,
   created_at |-> now]

\* INSERT INTO products (name, attributes) VALUES ($1, $2) RETURNING *: the
\* new row, with the defaults of the other columns.
InsertedRow(table, seq, name, attributes, now) ==
  Row(Nextval(seq), name, attributes, Null, now)

\* rows[0] of a result: undefined when there is no row.
NoRow == Row(0, Null, Null, Null, 0)
First(rows) == IF rows = << >> THEN NoRow ELSE rows[1]

\* ------------------------------------------------------------------ state
VARIABLES
  products,          \* the rows of the table products
  products_id_seq,   \* the last value of the sequence behind id SERIAL
  clock,             \* CURRENT_TIMESTAMP, as a logical time
  gen,               \* the generate-description requests in flight (a bag)
  res,               \* the response a handler has just sent, with its request
  created,           \* history: the ids of the 201 responses, in order
  deleted,           \* history: the ids a Delete has removed
  page,              \* the product detail page: its React state and its route
  fetches            \* the page's requests in flight (a bag)

serverVars == <<products, products_id_seq, clock, gen, res, created, deleted>>
pageVars == <<page, fetches>>
vars == <<products, products_id_seq, clock, gen, res, created, deleted, page, fetches>>

\* A generate-description request between two of its awaits: the path id,
\* the two fields read off the fetched row, and once the remote call has
\* settled what it settled with and the text made of it.
Awaiting(pc, id, name, attributes, outcome, description, calls) ==
  [pc |-> pc, id |-> id, name |-> name, attributes |-> attributes,
   outcome |-> outcome, description |-> description, calls |-> calls]

\* ------------------------------------------------------------ response bodies
JsonRow(row) == [kind |-> "row", row |-> row]
JsonRows(rows) == [kind |-> "rows", rows |-> rows]
JsonError(message) == [kind |-> "error", error |-> message]
JsonMessage(message) == [kind |-> "message", message |-> message]
PlainText(text) == [kind |-> "text", text |-> text]
EmptyBody == [kind |-> "empty"]

\* res.json(v): JSON.stringify(undefined) is undefined, and the response then
\* goes out with no body.
ResJson(row) == IF row = NoRow THEN EmptyBody ELSE JsonRow(row)

NoInput == [name |-> Null, attributes |-> Null, description |-> Null]

\* A response: the request (op, path id, body fields), the status and body
\* sent, what failed (cause), what console.error logged, and for
\* generate-description the await it was sent after (step), what the remote
\* call was given (prompt), what it settled with (outcome) and how many
\* times replicate.run was called for the request (calls).
Response(op, id, input, status, body, cause, logged) ==
  [op |-> op, id |-> id, input |-> input, status |-> status, body |-> body,
   cause |-> cause, logged |-> logged,
   step |-> "", prompt |-> NoPrompt, outcome |-> NoOutcome, calls |-> 0]

NoResponse == Response("", NoParam, NoInput, 0, EmptyBody, "", "")

\* Mutant: the body is err.message.
ServerError_Leaky(op, id, input, message) ==
  [op |-> op, id |-> id, input |-> input, status |-> 500,
   body |-> [kind |-> "text", text |-> message],
   cause |-> "store", logged |-> message,
   step |-> "", prompt |-> NoPrompt, outcome |-> NoOutcome, calls |-> 0]

\* The catch block of the five CRUD handlers.
ServerError(op, id, input, message) ==
  Response(op, id, input, 500, PlainText("Server Error"), "store", message)

NotFound(op, id, input) ==
  Response(op, id, input, 404, JsonError("Product not found"), "notfound", "")

\* The state `product` of the page: the record the server sent, and the two
\* fields the page adds to it.  isGenerating is undefined until the page sets
\* it; genError is "" where the object has no such field.
PageProduct(data, isGenerating, genError) ==
  [isNull |-> FALSE, data |-> data, isGenerating |-> isGenerating,
   genError |-> genError]

\* useState(null)
NoProduct == [isNull |-> TRUE, data |-> NoRow, isGenerating |-> "undefined",
              genError |-> ""]

\* A request of the page not yet settled: the function that awaits it and
\* the `product` of the render whose handler was clicked.
Fetch(call, product) == [call |-> call, product |-> product]

\* useState(null), useState(true), useState(null); the effect has called
\* fetchProduct.
InitPage ==
  /\ page = [route |-> "detail", isLoading |-> TRUE, error |-> "",
             product |-> NoProduct]
  /\ fetches = SetToBag({Fetch("fetchProduct", NoProduct)})

Init ==
  /\ InitPage
  /\ products = {}
  /\ products_id_seq = 0
  /\ clock = 1
  /\ gen = EmptyBag
  /\ res = NoResponse
  /\ created = << >>
  /\ deleted = {}

\* Node runs one callback at a time: a handler's step starts once the
\* response of the step before it has gone out.
Ready == res = NoResponse

\* The response has gone out.
Sent ==
  /\ res # NoResponse
  /\ res' = NoResponse
  /\ UNCHANGED <<pageVars, products, products_id_seq, clock, gen, created, deleted>>

\* ------------------------------------------------------------ CRUD handlers
\* Mutant: only name is checked.
CreateValid_NameOnly(name, attributes) == Truthy(name)

\* if (!name || !attributes) is false
CreateValid(name, attributes) == Truthy(name) /\ Truthy(attributes)

\* POST /api/products; the sequence is advanced at most `bound` times.
CreateUpTo(bound, name, attributes) ==
  LET input == [name |-> name, attributes |-> attributes, description |-> Null]
      row == InsertedRow(products, products_id_seq, name, attributes, clock)
  IN /\ Ready
     /\ \/ /\ ~CreateValid(name, attributes)
           /\ res' = Response("create", NoParam, input, 400,
                              JsonError("Name and attributes are required"),
                              "validation", "")
           /\ UNCHANGED <<pageVars, products, products_id_seq, clock, gen, created, deleted>>
        \/ /\ CreateValid(name, attributes)
           \* the pool fails: a statement that fails after nextval has run
           \* leaves the sequence advanced, one that fails before it does not
           /\ \E burns \in BOOLEAN :
                /\ burns => products_id_seq < bound
                /\ products_id_seq' =
                     IF burns THEN Nextval(products_id_seq) ELSE products_id_seq
           /\ res' = ServerError("create", NoParam, input, StoreFailure)
           /\ UNCHANGED <<pageVars, products, clock, gen, created, deleted>>
        \/ /\ CreateValid(name, attributes)
           /\ products_id_seq < bound
           /\ products' = products \cup {row}
           /\ products_id_seq' = Nextval(products_id_seq)
           /\ clock' = clock + 1
           /\ created' = Append(created, row.id)
           /\ res' = Response("create", NoParam, input, 201, JsonRow(row), "none", "")
           /\ UNCHANGED <<pageVars, gen, deleted>>

Create(name, attributes) == CreateUpTo(MaxProducts, name, attributes)

\* GET /api/products
List(poolFails) ==
  LET allProducts == SelectAll(products, poolFails)
  IN /\ Ready
     /\ res' = IF ~allProducts.ok
                 THEN ServerError("list", NoParam, NoInput, allProducts.message)
                 ELSE Response("list", NoParam, NoInput, 200,
                               JsonRows(allProducts.rows), "none", "")
     /\ UNCHANGED <<pageVars, products, products_id_seq, clock, gen, created, deleted>>

\* GET /api/products/:id
Get(id, poolFails) ==
  LET product == SelectById(products, id, poolFails)
  IN /\ Ready
     /\ res' = IF ~product.ok
                 THEN ServerError("get", id, NoInput, product.message)
                 ELSE IF Len(product.rows) = 0
                   THEN NotFound("get", id, NoInput)
                   ELSE Response("get", id, NoInput, 200,
                                 ResJson(First(product.rows)), "none", "")
     /\ UNCHANGED <<pageVars, products, products_id_seq, clock, gen, created, deleted>>

\* PUT /api/products/:id
Update(id, description, poolFails) ==
  LET input == [name |-> Null, attributes |-> Null, description |-> description]
      updateProduct == UpdateReturning(products, id, description, poolFails)
  IN /\ Ready
     /\ products' = IF updateProduct.ok
                      THEN UpdatedTable(products, id, description)
                      ELSE products
     /\ res' = IF ~updateProduct.ok
                 THEN ServerError("update", id, input, updateProduct.message)
                 ELSE IF Len(updateProduct.rows) = 0
                   THEN NotFound("update", id, input)
                   ELSE Response("update", id, input, 200,
                                 ResJson(First(updateProduct.rows)), "none", "")
     /\ UNCHANGED <<pageVars, products_id_seq, clock, gen, created, deleted>>

\* DELETE /api/products/:id
Delete(id, poolFails) ==
  LET deleteProduct == DeleteReturning(products, id, poolFails)
  IN /\ Ready
     /\ products' = IF deleteProduct.ok THEN DeletedTable(products, id) ELSE products
     /\ deleted' = deleted \cup {deleteProduct.rows[i].id : i \in 1..Len(deleteProduct.rows)}
     /\ res' = IF ~deleteProduct.ok
                 THEN ServerError("delete", id, NoInput, deleteProduct.message)
                 ELSE IF Len(deleteProduct.rows) = 0
                   THEN NotFound("delete", id, NoInput)
                   ELSE Response("delete", id, NoInput, 200,
                                 JsonMessage("Product successfully deleted"),
                                 "none", "")
     /\ UNCHANGED <<pageVars, products_id_seq, clock, gen, created>>

\* ------------------------------------------------- generate-description
\* The catch block of the handler: err.message, whatever threw.
GenerateError(id, step, cause, message, prompt, outcome) ==
  [Response("generate", id, NoInput, 500,
            JsonError(MessageOr(message, "Server Error: Failed to generate description")),
            cause, message)
     EXCEPT !.step = step, !.prompt = prompt, !.outcome = outcome]

\* Mutant: the row is taken without the check.
ProductAbsent_Never(productResult) == FALSE

\* if (productResult.rows.length === 0)
ProductAbsent(productResult) == Len(productResult.rows) = 0

\* POST /api/products/:id/generate-description, up to the await of the
\* remote call: the read, and the 404 when it finds no row.
GenFetch(id, poolFails) ==
  LET productResult == SelectById(products, id, poolFails)
      product == First(productResult.rows)
  IN /\ Ready
     /\ \/ /\ ~productResult.ok
           /\ res' = GenerateError(id, "read", "store", productResult.message,
                                   NoPrompt, NoOutcome)
           /\ gen' = gen
        \/ /\ productResult.ok
           /\ ProductAbsent(productResult)
           /\ res' = [NotFound("generate", id, NoInput) EXCEPT !.step = "read"]
           /\ gen' = gen
        \/ /\ productResult.ok
           /\ ~ProductAbsent(productResult)
           /\ BagCardinality(gen) < MaxGen
           /\ gen' = gen (+) SetToBag({Awaiting("remote", id, product.name,
                                                product.attributes, NoOutcome, << >>, 0)})
           /\ res' = res
     /\ UNCHANGED <<pageVars, products, products_id_seq, clock, created, deleted>>

\* Mutant: a throw of generateDescription is caught by a loop that calls it
\* again.
AfterRemote_Retry(description) == IF description.ok THEN "write" ELSE "remote"

\* Where the handler goes once generateDescription has settled: on to the
\* write when it returned, into the catch block and its response when it
\* threw.
AfterRemote(description) == IF description.ok THEN "write" ELSE "respond"

\* replicate.run is called and settles with `outcome`; generateDescription
\* returns or throws, and a throw is answered at once from the catch block.
GenRemote(r, outcome) ==
  LET prompt == Prompt(r.name, r.attributes)
      description == GenerateDescription(outcome)
      calls == r.calls + 1
      pc == AfterRemote(description)
  IN /\ Ready
     /\ r.pc = "remote"
     /\ \/ /\ pc = "respond"
           /\ res' = [GenerateError(r.id, "remote", "generation",
                                    description.message, prompt, outcome)
                        EXCEPT !.calls = calls]
           /\ gen' = gen (-) SetToBag({r})
        \/ /\ pc # "respond"
           /\ gen' = (gen (-) SetToBag({r})) (+)
                       SetToBag({Awaiting(pc, r.id, r.name, r.attributes,
                                          outcome, description.text, calls)})
           /\ res' = res
     /\ UNCHANGED <<pageVars, products, products_id_seq, clock, created, deleted>>

\* The write of the generated text and the response with rows[0].
GenWrite(r, poolFails) ==
  LET prompt == Prompt(r.name, r.attributes)
      description == Str(r.description)
      updateProduct == UpdateReturning(products, r.id, description, poolFails)
  IN /\ Ready
     /\ r.pc = "write"
     /\ gen' = gen (-) SetToBag({r})
     /\ \/ /\ ~updateProduct.ok
           /\ res' = [GenerateError(r.id, "write", "store", updateProduct.message,
                                    prompt, r.outcome)
                        EXCEPT !.calls = r.calls]
           /\ products' = products
        \/ /\ updateProduct.ok
           /\ products' = UpdatedTable(products, r.id, description)
           /\ res' = [Response("generate", r.id, NoInput, 200,
                               ResJson(First(updateProduct.rows)), "none", "")
                        EXCEPT !.step = "write", !.prompt = prompt,
                               !.outcome = r.outcome, !.calls = r.calls]
     /\ UNCHANGED <<pageVars, products_id_seq, clock, created, deleted>>

\* ---------------------------------------------------- product detail page
\* The row the page is about, as the server sends it.
PageRow(description) == Row(1, Str(<<"T">>), Str(<<"k">>), description, 1)

\* What fetch(`${API_URL}/products/${id}`) settles with: a 200 and the row,
\* a status that is not ok, or a rejection.
GetSettlements ==
  {[kind |-> "ok", data |-> PageRow(description), message |-> ""] :
     description \in {Null, Str(<<"a", " ", "b">>)}}
  \cup {[kind |-> "notok", data |-> NoRow, message |-> ""],
        [kind |-> "reject", data |-> NoRow, message |-> "Failed to fetch"]}

\* What the POST to generate-description settles with: a 200 and the row, a
\* 200 with no body (response.json() then throws), a status that is not ok
\* and its {error}, or a rejection.
GenerateSettlements ==
  {[kind |-> "ok", data |-> PageRow(Str(<<"a", " ", "b">>)), message |-> ""],
   [kind |-> "okEmpty", data |-> NoRow, message |-> "Unexpected end of JSON input"],
   [kind |-> "notok", data |-> NoRow, message |-> "Replicate API did not return any text."],
   [kind |-> "reject", data |-> NoRow, message |-> "Failed to fetch"]}

\* What the DELETE settles with: fetch resolves whatever the status is, or
\* rejects.
DeleteSettlements == {"resolve", "reject"}

\* The render reaches the main view: not loading, no error, a product.
MainView ==
  /\ page.route = "detail"
  /\ ~page.isLoading
  /\ page.error = ""
  /\ ~page.product.isNull

\* The button that calls handleGenerateAI: "Try Again" when genError is set,
\* and it has no disabled attribute; otherwise the button disabled by
\* isGenerating.
GenerateButtonDisabled(product) ==
  IF product.genError # "" THEN FALSE ELSE product.isGenerating = "true"

\* A state setter called after router.push has left the page does nothing.
SetPage(next) == page' = IF page.route = "detail" THEN next ELSE page

\* fetchProduct from its await on: setProduct(data), setError(null), or
\* setError(err.message); finally setIsLoading(false).
FetchProductSettled(r, settlement) ==
  /\ r.call = "fetchProduct"
  /\ fetches' = fetches (-) SetToBag({r})
  /\ SetPage(IF settlement.kind = "ok"
               THEN [page EXCEPT !.product = PageProduct(settlement.data, "undefined", ""),
                                 !.error = "", !.isLoading = FALSE]
               ELSE [page EXCEPT !.error = IF settlement.kind = "notok"
                                             THEN "Product not found"
                                             ELSE settlement.message,
                                 !.isLoading = FALSE])
  /\ UNCHANGED serverVars

\* A click on the button: handleGenerateAI up to its await.
HandleGenerateAI ==
  /\ MainView
  /\ ~GenerateButtonDisabled(page.product)
  /\ BagCardinality(fetches) < MaxFetches
  /\ page' = [page EXCEPT !.product.isGenerating = "true"]
  /\ fetches' = fetches (+) SetToBag({Fetch("handleGenerateAI", page.product)})
  /\ UNCHANGED serverVars

\* handleGenerateAI from its await on: setProduct(updatedProduct), or the
\* catch block's setProduct over the product the handler was created with.
GenerateSettled(r, settlement) ==
  /\ r.call = "handleGenerateAI"
  /\ fetches' = fetches (-) SetToBag({r})
  /\ SetPage(IF settlement.kind = "ok"
               THEN [page EXCEPT !.product = PageProduct(settlement.data, "undefined", "")]
               ELSE [page EXCEPT !.product =
                       [r.product EXCEPT !.isGenerating = "false",
                                         !.genError = settlement.message]])
  /\ UNCHANGED serverVars

\* A click on Delete Product, confirmed or not: handleDelete up to its await.
HandleDelete(confirmed) ==
  /\ MainView
  /\ BagCardinality(fetches) < MaxFetches
  /\ fetches' = IF confirmed
                  THEN fetches (+) SetToBag({Fetch("handleDelete", page.product)})
                  ELSE fetches
  /\ page' = page
  /\ UNCHANGED serverVars

\* handleDelete from its await on: router.push("/"), or the alert of the
\* catch block.
DeleteSettled(r, settlement) ==
  /\ r.call = "handleDelete"
  /\ fetches' = fetches (-) SetToBag({r})
  /\ page' = IF settlement = "resolve" THEN [page EXCEPT !.route = "home"] ELSE page
  /\ UNCHANGED serverVars

\* ------------------------------------------------------------ specification
Next ==
  \/ Sent
  \/ \E name \in NameInputs, attributes \in AttributesInputs : Create(name, attributes)
  \/ \E poolFails \in BOOLEAN : List(poolFails)
  \/ \E id \in PathIds, poolFails \in BOOLEAN : Get(id, poolFails)
  \/ \E id \in PathIds, description \in DescriptionInputs, poolFails \in BOOLEAN :
       Update(id, description, poolFails)
  \/ \E id \in PathIds, poolFails \in BOOLEAN : Delete(id, poolFails)
  \/ \E id \in PathIds, poolFails \in BOOLEAN : GenFetch(id, poolFails)
  \/ \E r \in BagToSet(gen), outcome \in RemoteOutcomes : GenRemote(r, outcome)
  \/ \E r \in BagToSet(gen), poolFails \in BOOLEAN : GenWrite(r, poolFails)

Spec == Init /\ [][Next]_vars

\* The five CRUD handlers alone, over more rows.
ListedPathIds == {Digits(n) : n \in 1..MaxListed} \cup {Junk}

NextCrud ==
  \/ Sent
  \/ \E name \in NameInputs, attributes \in AttributesInputs :
       CreateUpTo(MaxListed, name, attributes)
  \/ \E poolFails \in BOOLEAN : List(poolFails)
  \/ \E id \in ListedPathIds, poolFails \in BOOLEAN : Get(id, poolFails)
  \/ \E id \in ListedPathIds, description \in DescriptionInputs, poolFails \in BOOLEAN :
       Update(id, description, poolFails)
  \/ \E id \in ListedPathIds, poolFails \in BOOLEAN : Delete(id, poolFails)

SpecCrud == Init /\ [][NextCrud]_vars

\* ------------------------------------------------------------------ claims
\* A request field that is missing or empty.
MissingOrEmpty(v) == v.isNull \/ v.text = << >>

\* The rows a path id identifies.
Identified(table, id) == {r \in table : id = Digits(r.id)}

\* A handler has just answered: every handler step starts with no response
\* pending.
Answered == res' # res /\ res' # NoResponse

\* C1: a Create whose name or attributes is missing or empty is answered 400
\* with an {error} body, and the step leaves the table as it was.
C1_InvalidCreateRejected ==
  /\ [](res.op = "create"
          /\ (MissingOrEmpty(res.input.name) \/ MissingOrEmpty(res.input.attributes))
        => res.status = 400 /\ res.body.kind = "error")
  /\ [][Answered /\ res'.op = "create"
          /\ (MissingOrEmpty(res'.input.name) \/ MissingOrEmpty(res'.input.attributes))
        => products' = products /\ created' = created]_vars

C1_Witness ==
  /\ res.op = "create" /\ res.status = 400
  /\ MissingOrEmpty(res.input.attributes) /\ ~MissingOrEmpty(res.input.name)
  /\ products # {}

\* C2: a Create with both fields present is answered 201 unless the store
\* fails; a 201 carries the row now stored, its description null, and the
\* ids of all 201 responses so far are pairwise different, those of rows
\* deleted since included.
C2_CreatedIdsNeverReused ==
  /\ res.op = "create" /\ res.cause # "store"
       /\ ~MissingOrEmpty(res.input.name) /\ ~MissingOrEmpty(res.input.attributes)
     => res.status = 201
  /\ res.op = "create" /\ res.status = 201
     => /\ res.body.kind = "row"
        /\ res.body.row \in products
        /\ res.body.row.description = Null
        /\ res.body.row.name = res.input.name
        /\ res.body.row.attributes = res.input.attributes
        /\ created # << >> /\ res.body.row.id = created[Len(created)]
  /\ \A i, j \in 1..Len(created) : i # j => created[i] # created[j]

C2_Witness ==
  /\ res.op = "create" /\ res.status = 201
  /\ Len(created) = 2
  /\ created[1] \in deleted

\* C3: a Get whose path id identifies no stored row is answered 404 with an
\* {error} body, whatever the form of the path id (the pool not failing).
C3_GetUnknownIs404 ==
  res.op = "get" /\ Identified(products, res.id) = {} /\ res.logged # StoreFailure
  => res.status = 404 /\ res.body.kind = "error"

\* The text of a remote output: CharAt is the n-th character of the
\* fragments laid end to end, TotalLen their number.
RECURSIVE CharAt(_, _)
CharAt(fragments, n) ==
  IF n <= Len(Head(fragments)) THEN Head(fragments)[n]
  ELSE CharAt(Tail(fragments), n - Len(Head(fragments)))

RECURSIVE TotalLen(_)
TotalLen(fragments) ==
  IF fragments = << >> THEN 0 ELSE Len(Head(fragments)) + TotalLen(Tail(fragments))

\* t is the fragments in order with nothing between them, less the white
\* space at both ends.
IsTrimmedJoin(t, fragments) ==
  \E i, j \in 0..TotalLen(fragments) :
    /\ i + Len(t) = j
    /\ \A k \in 1..Len(t) : t[k] = CharAt(fragments, i + k)
    /\ \A k \in 1..TotalLen(fragments) :
         (k <= i \/ k > j) => CharAt(fragments, k) = " "
    /\ t # << >> => t[1] # " " /\ t[Len(t)] # " "

\* C4: a 200 of generate-description carries the stored row of the product,
\* its description the generated text.
C4_Generate200IsStoredRecord ==
  res.op = "generate" /\ res.status = 200
  => /\ res.body.kind = "row"
     /\ res.body.row \in Identified(products, res.id)
     /\ ~res.body.row.description.isNull
     /\ IsTrimmedJoin(res.body.row.description.text, res.outcome.fragments)

\* A remote call that failed, or whose result is absent or empty.
RemoteFailed(outcome) ==
  \/ outcome.kind \in {"reject", "undefined"}
  \/ outcome.kind = "output"
       /\ \A k \in 1..Len(outcome.fragments) : outcome.fragments[k] = << >>

\* C5: when the remote call fails or gives nothing, generate-description
\* answers 500 with the generation error's message as {error}, and the step
\* writes nothing: every row is as before; no request whose remote call
\* failed is left to write.
C5_FailedGenerationKeepsDescription ==
  /\ [](res.op = "generate" /\ RemoteFailed(res.outcome)
        => /\ res.status = 500
           /\ res.step = "remote"
           /\ res.body.kind = "error"
           /\ res.body.error # ""
           /\ res.body.error = res.logged
           /\ res.outcome.message # "" => res.body.error = res.outcome.message
           /\ res.outcome.kind = "output"
              => res.body.error = "Replicate API did not return any text.")
  /\ [](\A r \in BagToSet(gen) : ~RemoteFailed(r.outcome))
  /\ [][Answered /\ res'.op = "generate" /\ RemoteFailed(res'.outcome)
        => products' = products]_vars

C5_Witness ==
  /\ res.op = "generate" /\ res.status = 500
  /\ res.outcome.kind = "output"
  /\ \E r \in Identified(products, res.id) : ~r.description.isNull

\* C6, as stated: whichever handler it is, a failure of a statement is
\* answered 500 with a body that carries nothing of the failure.
C6_StoreFailureIsGeneric ==
  res.cause = "store"
  => /\ res.status = 500
     /\ res.body.kind = "error" => res.body.error # res.logged
     /\ res.body.kind = "text" => res.body.text # res.logged

\* C6, amended: the five CRUD handlers answer a failure of their statement
\* with the plain 500 "Server Error" and log the failure; generate-description
\* answers a failure of its read or of its write with a 500 whose {error} is
\* the failure's message.
C6_StoreFailureByHandler ==
  res.cause = "store"
  => /\ res.status = 500
     /\ res.logged \in {StoreFailure, "invalid input syntax for type integer"}
     /\ IF res.op = "generate"
          THEN res.body = [kind |-> "error", error |-> res.logged]
          ELSE res.body = [kind |-> "text", text |-> "Server Error"]

C6_Witness ==
  /\ res.cause = "store"
  /\ res.op = "generate" /\ res.step = "write"
  /\ res.body.kind = "error" /\ res.body.error = StoreFailure

\* The requests that have just passed their read.
Started == {r \in BagToSet(gen') : r.pc = "remote" /\ CopiesIn(r, gen') > CopiesIn(r, gen)}

\* C7: generate-description for an id of no stored row is answered 404 from
\* its read, before any remote call (the statement not failing), the step
\* changes neither the table nor the requests in flight, and no request gets
\* past its read without a row.
C7_GenerateUnknownStops ==
  /\ [](res.op = "generate" /\ res.status = 404
        => res.step = "read" /\ res.prompt = NoPrompt /\ res.outcome = NoOutcome)
  /\ [][Answered /\ res'.op = "generate" /\ res'.step = "read"
          /\ res'.id.form = "integer" /\ Identified(products, res'.id) = {}
          /\ res'.cause # "store"
        => res'.status = 404 /\ products' = products /\ gen' = gen]_vars
  /\ [][\A r \in Started : Identified(products, r.id) # {}]_vars

C7_Witness ==
  /\ res.op = "generate" /\ res.status = 404
  /\ res.id.n \in deleted
  /\ products # {}

\* C8: a 200 of generate-description for a product that is still stored
\* carries the stored row; its description is the fragments in order with
\* nothing between them, trimmed at both ends, and the prompt was made of
\* that row's name and attributes.
C8_GeneratedTextStoredAndReturned ==
  res.op = "generate" /\ res.status = 200 /\ res.body.kind = "row"
  => /\ res.body.row \in Identified(products, res.id)
     /\ res.outcome.kind = "output"
     /\ res.body.row.description.isNull = FALSE
     /\ IsTrimmedJoin(res.body.row.description.text, res.outcome.fragments)
     /\ res.outcome.fragments = << <<" ", "a", " ">>, <<"b", " ">> >>
        => res.body.row.description.text = <<"a", " ", "b">>
     /\ res.prompt.template # ""
     /\ res.prompt.productName = res.body.row.name
     /\ res.prompt.attributes = res.body.row.attributes

C8_Witness ==
  /\ res.op = "generate" /\ res.status = 200 /\ res.body.kind = "row"
  /\ res.body.row.description.text = <<"a", " ", "b">>
  /\ Cardinality(products) = 2

\* C9: an Update of a stored id is answered 200 with the row as now stored,
\* its description the one supplied (null when none is); the step changes
\* that row's description and nothing else in the table.  An Update of an id
\* of no row is answered 404 (the statement not failing) and changes nothing.
C9_UpdateSetsOnlyDescription ==
  /\ [](res.op = "update" /\ res.status = 200
        => /\ res.body.kind = "row"
           /\ res.body.row \in Identified(products, res.id)
           /\ res.body.row.description = res.input.description)
  /\ [][Answered /\ res'.op = "update" /\ res'.status = 200
        => /\ Identified(products, res'.id) # {}
           /\ products' =
                {IF res'.id = Digits(r.id)
                   THEN [id |-> r.id, name |-> r.name, attributes |-> r.attributes,
                         description |-> res'.input.description,
                         created_at |-> r.created_at]
                   ELSE r : r \in products}]_vars
  /\ [][Answered /\ res'.op = "update" /\ res'.id.form = "integer"
          /\ res'.cause # "store"
        => IF Identified(products, res'.id) = {}
             THEN res'.status = 404 /\ products' = products
             ELSE res'.status = 200]_vars

C9_Witness ==
  /\ res.op = "update" /\ res.status = 200
  /\ ~res.input.description.isNull
  /\ \E r \in products : r.description # res.input.description /\ ~r.description.isNull

\* The requests that look an id up first: Get, Update, Delete, and
\* generate-description at its read.
LooksUp(r) == r.op \in {"get", "update", "delete"} \/ (r.op = "generate" /\ r.step = "read")

\* C10: no row ever has a deleted id again; a Get, Update, Delete or
\* generate-description that starts on a deleted id is answered 404 (the
\* statement not failing) and no generate-description gets past its read on
\* it; a Delete of an id of no row is answered 404 and changes nothing.
C10_DeletedStaysGone ==
  /\ [](\A r \in products : r.id \notin deleted)
  /\ [][Answered /\ LooksUp(res') /\ res'.id.form = "integer"
          /\ res'.id.n \in deleted /\ res'.cause # "store"
        => res'.status = 404]_vars
  /\ [][\A r \in Started : r.id.n \notin deleted]_vars
  /\ [][Answered /\ res'.op = "delete" /\ res'.id.form = "integer"
          /\ Identified(products, res'.id) = {} /\ res'.cause # "store"
        => res'.status = 404 /\ products' = products /\ deleted' = deleted]_vars

C10_Witness ==
  /\ res.op = "delete" /\ res.status = 404
  /\ res.id.n \in deleted
  /\ Len(created) = 2 /\ Cardinality(products) = 1

\* The position of an id among the ids of the 201 responses.
CreatedAt(id) == CHOOSE i \in 1..Len(created) : created[i] = id

\* Generate-description requests racing for the same products, the PUT and
\* the DELETE among them.
RacedPathIds == {Digits(n) : n \in 1..MaxRaced}

NextRace ==
  \/ Sent
  \/ \E name \in NameInputs, attributes \in AttributesInputs :
       CreateUpTo(MaxRaced, name, attributes)
  \/ \E id \in RacedPathIds, description \in DescriptionInputs, poolFails \in BOOLEAN :
       Update(id, description, poolFails)
  \/ \E id \in RacedPathIds, poolFails \in BOOLEAN : Delete(id, poolFails)
  \/ \E id \in RacedPathIds, poolFails \in BOOLEAN : GenFetch(id, poolFails)
  \/ \E r \in BagToSet(gen), outcome \in RacingOutcomes : GenRemote(r, outcome)
  \/ \E r \in BagToSet(gen), poolFails \in BOOLEAN : GenWrite(r, poolFails)

SpecRace == Init /\ [][NextRace]_vars

\* The product detail page in a browser, the server behind it seen through
\* what its requests settle with.
NextPage ==
  \/ \E r \in BagToSet(fetches), settlement \in GetSettlements :
       FetchProductSettled(r, settlement)
  \/ HandleGenerateAI
  \/ \E r \in BagToSet(fetches), settlement \in GenerateSettlements :
       GenerateSettled(r, settlement)
  \/ \E confirmed \in BOOLEAN : HandleDelete(confirmed)
  \/ \E r \in BagToSet(fetches), settlement \in DeleteSettlements :
       DeleteSettled(r, settlement)

SpecPage == Init /\ [][NextPage]_vars

\* C11: a List answered 200 carries exactly the rows now stored, each once,
\* their ids strictly descending; rows are listed in the reverse of the
\* order they were created in, and no deleted row is among them.
C11_ListNewestFirst ==
  res.op = "list" /\ res.status = 200
  => /\ res.body.kind = "rows"
     /\ {res.body.rows[i] : i \in 1..Len(res.body.rows)} = products
     /\ Len(res.body.rows) = Cardinality(products)
     /\ \A i, j \in 1..Len(res.body.rows) :
          i < j => /\ res.body.rows[i].id > res.body.rows[j].id
                   /\ CreatedAt(res.body.rows[i].id) > CreatedAt(res.body.rows[j].id)
     /\ \A i \in 1..Len(res.body.rows) : res.body.rows[i].id \notin deleted

C11_Witness ==
  /\ res.op = "list" /\ res.status = 200
  /\ Len(res.body.rows) = 3
  /\ res.body.rows[1].id = created[3]
  /\ res.body.rows[2].id = created[2]
  /\ res.body.rows[3].id = created[1]

\* C12: every stored row has a name and attributes that are not null and an
\* id of its own; a row comes into the table only as the row of a 201, under
\* an id no row had before, and from then on every step leaves its id, name,
\* attributes and created_at as they are.
C12_OnlyDescriptionChanges ==
  /\ [](\A r \in products : ~r.name.isNull /\ ~r.attributes.isNull)
  /\ [](\A r, q \in products : r.id = q.id => r = q)
  /\ [][\A q \in products' :
          IF \E r \in products : r.id = q.id
            THEN \E r \in products :
                   /\ r.id = q.id
                   /\ r.name = q.name
                   /\ r.attributes = q.attributes
                   /\ r.created_at = q.created_at
            ELSE /\ res'.op = "create" /\ res'.status = 201
                 /\ res'.body.row = q
                 /\ q.id \notin deleted
                 /\ \A i \in 1..Len(created) : created[i] # q.id]_vars

C12_Witness ==
  /\ res.op = "update" /\ res.status = 200
  /\ res.body.row \in products
  /\ res.body.row.description = Str(<<"p">>)
  /\ res.body.row.name = Str(<<"T">>)
  /\ res.body.row.attributes = Str(<<"k">>)
  /\ deleted # {}

\* C13: generate-description requests for one product may be in flight
\* together.  The steps of a request before its write (the read, the remote
\* call) leave the table as it is; the step that answers 200 with a row takes
\* exactly one request out of flight, and after it the stored description of
\* that product is that request's own text (the trimmed join of what the
\* remote call returned to it), whatever was stored before and whatever the
\* other requests in flight hold; every other row is as it was.  So of two
\* requests that both end with 200 the one whose write comes last decides
\* what is stored, and what is stored is always the text of one of them.
C13_LastWriterWins ==
  [][
     /\ (Answered /\ res'.op = "generate" /\ res'.status = 200
           /\ res'.body.kind = "row")
        => (\E r \in BagToSet(gen) :
              /\ r.pc = "write"
              /\ r.id = res'.id
              /\ r.outcome = res'.outcome
              /\ gen' = gen (-) SetToBag({r})
              /\ IsTrimmedJoin(r.description, r.outcome.fragments)
              /\ \E old \in Identified(products, r.id) :
                   /\ res'.body.row = [old EXCEPT !.description = Str(r.description)]
                   /\ products' = (products \ {old}) \cup {res'.body.row})
     /\ (gen' # gen /\ ~(Answered /\ res'.op = "generate" /\ res'.status = 200))
        => (products' = products)
    ]_vars

\* One request has written "b" and been answered while another for the same
\* product, holding "a b", is still to write.
C13_Witness ==
  /\ res.op = "generate" /\ res.status = 200 /\ res.body.kind = "row"
  /\ res.body.row.description = Str(<<"b">>)
  /\ res.body.row \in products
  /\ \E r \in BagToSet(gen) :
       /\ r.pc = "write"
       /\ r.id = res.id
       /\ r.description = <<"a", " ", "b">>

\* C14: replicate.run is called at most once for a generate-description
\* request: a request waiting for the remote call has made none, one that is
\* to write has made one, and every response to a request tells of at most
\* one.  The step in which the call settles takes the request on to the write
\* when the call returned text, and otherwise (it failed, or returned no
\* text) answers 500 in that very step, the request leaving flight with its
\* one call made and the table as it was.
C14_OneRemoteCall ==
  /\ [](\A r \in BagToSet(gen) :
          /\ r.calls \in {0, 1}
          /\ r.pc = "remote" <=> r.calls = 0
          /\ r.pc = "write" <=> r.calls = 1)
  /\ [](res.op = "generate"
          => /\ res.calls \in {0, 1}
             /\ res.step = "read" <=> res.calls = 0
             /\ res.step = "remote" => res.status = 500 /\ RemoteFailed(res.outcome))
  /\ [][\A r \in BagToSet(gen) :
          (r.pc = "remote" /\ CopiesIn(r, gen') < CopiesIn(r, gen))
          => \/ /\ Answered
                /\ res'.op = "generate" /\ res'.status = 500
                /\ res'.step = "remote" /\ res'.calls = 1
                /\ res'.id = r.id
                /\ RemoteFailed(res'.outcome)
                /\ gen' = gen (-) SetToBag({r})
                /\ products' = products
             \/ /\ res' = res
                /\ products' = products
                /\ \E w \in BagToSet(gen') :
                     /\ w.pc = "write" /\ w.calls = 1 /\ w.id = r.id
                     /\ ~RemoteFailed(w.outcome)
                     /\ gen' = (gen (-) SetToBag({r})) (+) SetToBag({w})]_vars

\* The remote call returned no fragments and the request was answered 500
\* after its one call, another request still waiting for its own.
C14_Witness ==
  /\ res.op = "generate" /\ res.status = 500 /\ res.step = "remote"
  /\ res.calls = 1
  /\ res.outcome = [kind |-> "output", fragments |-> << >>, message |-> ""]
  /\ \E r \in BagToSet(gen) : r.pc = "remote" /\ r.id = res.id

\* C15: a generate-description request answered 200 with a row has stored a
\* description that is not empty, and no row holds the empty string as its
\* description; a request whose remote call returned
\* fragments with no text in them but white space is answered 500.
C15_NoEmptyDescriptionStored ==
  /\ res.op = "generate" /\ res.status = 200 /\ res.body.kind = "row"
     => res.body.row.description.text # << >>
  /\ \A r \in products : r.description # Str(<< >>)
  /\ res.op = "generate" /\ res.step \in {"remote", "write"}
       /\ res.outcome.kind = "output"
       /\ (\A k \in 1..TotalLen(res.outcome.fragments) :
             CharAt(res.outcome.fragments, k) = " ")
     => /\ res.status = 500
        /\ res.body.kind = "error"

\* The generate-description requests of the page in flight.
GenerateFetches ==
  {r \in BagToSet(fetches) : r.call = "handleGenerateAI"}

\* C16: on the product detail page at most one request of handleGenerateAI
\* is in flight, and whenever the page shows a product with isGenerating
\* true the button that calls handleGenerateAI is disabled.
C16_OneGenerationInFlight ==
  /\ \A r \in GenerateFetches : CopiesIn(r, fetches) = 1
  /\ Cardinality(GenerateFetches) <= 1
  /\ MainView /\ page.product.isGenerating = "true"
     => GenerateButtonDisabled(page.product)

====
